---- MODULE Spec2Model ----
(***************************************************************************)
(* Model of scrape_prices.py: two fetches (parse_price), then the three    *)
(* writers update_prices, update_history and update_index_html, driven by  *)
(* main.  Texts are sequences of one-character strings; prices are held    *)
(* in centavos (the float 2292.66 is the integer 229266).                  *)
(***************************************************************************)
EXTENDS Integers, Sequences, FiniteSets, TLC

\* ------------------------------------------------------------------ bounds
MaxRuns == 2
MaxRunsLong == 11
MaxClock == 2
MaxInitLen == 22
TicksPerDay == 2

\* ------------------------------------------------------- program constants
HistoryCap == 20
OpenWeekdays == 5

\* --------------------------------------------------------------- calendar
\* The clock counts ticks from Friday 19/09/2025 00:00 (weekday 4; September
\* has 30 days).
Epoch == [year |-> 2025, month |-> 9, day |-> 19, weekday |-> 4, month_days |-> 30]

Procs == {1, 2}

Absent == [kind |-> "absent"]
NoElem == <<"<none>">>
Fail == [ok |-> FALSE]
Ok(v) == [ok |-> TRUE, v |-> v]

Min(a, b) == IF a < b THEN a ELSE b
Max(a, b) == IF a > b THEN a ELSE b

\* ------------------------------------------------------------------ texts
Digits == <<"0", "1", "2", "3", "4", "5", "6", "7", "8", "9">>
IsDigit(c) == \E d \in 1..10 : Digits[d] = c
DigitVal(c) == (CHOOSE d \in 1..10 : Digits[d] = c) - 1

RECURSIVE Replace(_, _, _)
\* str.replace(old, new) for a one-character old; new is a text (maybe empty)
Replace(s, old, new) ==
  IF s = <<>> THEN <<>>
  ELSE (IF Head(s) = old THEN new ELSE <<Head(s)>>) \o Replace(Tail(s), old, new)

RECURSIVE NatText(_)
\* decimal digits of a natural number, no padding
NatText(n) == IF n < 10 THEN <<Digits[n + 1]>>
              ELSE NatText(n \div 10) \o <<Digits[(n % 10) + 1]>>

RECURSIVE Pad(_, _)
\* zero padding on the left up to width w (%02d, %04d)
Pad(s, w) == IF Len(s) >= w THEN s ELSE Pad(<<"0">> \o s, w)

RECURSIVE DigitsVal(_, _)
DigitsVal(s, acc) == IF s = <<>> THEN acc
                     ELSE DigitsVal(Tail(s), acc * 10 + DigitVal(Head(s)))

AllDigits(s) == \A i \in 1..Len(s) : IsDigit(s[i])

\* float(text), for the texts the model serves: digits, at most one ".",
\* at most two decimals; the value in centavos, or Fail (ValueError)
ParseFloat(s) ==
  LET dots == {i \in 1..Len(s) : s[i] = "."} IN
  IF dots = {} THEN
     IF s # <<>> /\ AllDigits(s) THEN Ok(DigitsVal(s, 0) * 100) ELSE Fail
  ELSE IF Cardinality(dots) > 1 THEN Fail
  ELSE LET d == CHOOSE i \in dots : TRUE
           ip == SubSeq(s, 1, d - 1)
           fp == SubSeq(s, d + 1, Len(s))
       IN IF AllDigits(ip) /\ AllDigits(fp) /\ Len(ip) + Len(fp) > 0 /\ Len(fp) <= 2
          THEN Ok(DigitsVal(ip, 0) * 100
                  + (IF Len(fp) = 0 THEN 0
                     ELSE IF Len(fp) = 1 THEN DigitsVal(fp, 0) * 10
                     ELSE DigitsVal(fp, 0)))
          ELSE Fail

RECURSIVE Group3(_)
\* the "," thousands grouping of format spec ",": digits in groups of three
Group3(s) == IF Len(s) <= 3 THEN s
             ELSE Group3(SubSeq(s, 1, Len(s) - 3)) \o <<",">> \o SubSeq(s, Len(s) - 2, Len(s))

\* f"{value:,.2f}" for a value in centavos
FormatComma2f(v) == Group3(NatText(v \div 100)) \o <<".">> \o Pad(NatText(v % 100), 2)

\* f"R${value:,.2f}".replace(",", "X").replace(".", ",").replace("X", ".")
format_brl(v) ==
  Replace(Replace(Replace(<<"R", "$">> \o FormatComma2f(v), ",", <<"X">>), ".", <<",">>), "X", <<".">>)

\* ------------------------------------------------------------------ dates
DayIndex(t) == t \div TicksPerDay
\* datetime.weekday(): Monday is 0, Sunday is 6
Weekday(t) == (Epoch.weekday + DayIndex(t)) % 7
DayOfMonth(t) == LET d == Epoch.day + DayIndex(t)
                 IN IF d > Epoch.month_days THEN d - Epoch.month_days ELSE d
MonthOf(t) == IF Epoch.day + DayIndex(t) > Epoch.month_days THEN Epoch.month + 1 ELSE Epoch.month
HourOf(t) == (t % TicksPerDay) * (24 \div TicksPerDay)

\* now.strftime("%d/%m/%Y")
StrfDate(t) == Pad(NatText(DayOfMonth(t)), 2) \o <<"/">> \o Pad(NatText(MonthOf(t)), 2)
               \o <<"/">> \o Pad(NatText(Epoch.year), 4)
\* now.strftime("%H:%M:%S")
StrfTime(t) == Pad(NatText(HourOf(t)), 2) \o <<":", "0", "0", ":", "0", "0">>
\* now.isoformat(): the fields of the ISO text, in its order
IsoFormat(t) == <<Epoch.year, MonthOf(t), DayOfMonth(t), HourOf(t)>>


\* ------------------------------------------------------- the source site
Txt_19_09 == <<"1", "9", "/", "0", "9", "/", "2", "0", "2", "5">>
Txt_2292_66 == <<"2", ".", "2", "9", "2", ",", "6", "6">>
Txt_1402_21 == <<"1", ".", "4", "0", "2", ",", "2", "1">>
Txt_nd == <<"n", "/", "d">>

Page(cols) == [status |-> "200", tbody |-> TRUE, tr |-> TRUE, cols |-> cols]
BadPages == { [status |-> "connection_error", tbody |-> FALSE, tr |-> FALSE, cols |-> <<>>],
              [status |-> "500", tbody |-> FALSE, tr |-> FALSE, cols |-> <<>>],
              [status |-> "200", tbody |-> FALSE, tr |-> FALSE, cols |-> <<>>],
              [status |-> "200", tbody |-> TRUE, tr |-> FALSE, cols |-> <<>>],
              Page(<<Txt_19_09>>),
              Page(<<Txt_19_09, Txt_nd>>) }
\* what a GET of each URL may return
arabica_url == {Page(<<Txt_19_09, Txt_2292_66>>)} \cup BadPages
conilon_url == {Page(<<Txt_19_09, Txt_1402_21>>)} \cup BadPages

Raise(name) == [ok |-> FALSE, exc |-> name]

parse_price(resp) ==
  IF resp.status = "connection_error" THEN Raise("ConnectionError")
  ELSE IF resp.status # "200" THEN Raise("HTTPError")
  ELSE IF ~resp.tbody THEN Raise("AttributeError")
  ELSE IF ~resp.tr THEN Raise("AttributeError")
  ELSE IF Len(resp.cols) < 2 THEN Raise("IndexError")
  ELSE LET date_str == resp.cols[1]
           price_str == Replace(Replace(resp.cols[2], ".", <<>>), ",", <<".">>)
           price == ParseFloat(price_str)
       IN IF ~price.ok THEN Raise("ValueError")
          ELSE [ok |-> TRUE, date |-> date_str, price |-> price.v]

is_market_open(t) == Weekday(t) < OpenWeekdays

\* ------------------------------------------------------------------ state
VARIABLES clock,          \* datetime.now(), in ticks
          prices_file,    \* data/prices.json
          history_file,   \* data/precos.json
          index_file,     \* index.html
          pc,             \* per invocation: position in main
          exc,            \* per invocation: the unhandled exception, if any
          date_arabica, price_arabica, date_conilon, price_conilon,
          now, trade_date,
          history,        \* update_history's local list
          procs,          \* invocations the scheduler may start
          run_limit,      \* invocations the scheduler starts at most
          runs,           \* invocations started so far
          writes,         \* history writes completed so far
          history0,       \* the history file before the first invocation
          start_files,    \* per invocation: the three files when it started
          overlapped      \* per invocation: it ran while another one ran

vars == <<clock, prices_file, history_file, index_file, pc, exc,
          date_arabica, price_arabica, date_conilon, price_conilon,
          now, trade_date, history, procs, run_limit, runs, writes,
          history0, start_files, overlapped>>

locals == <<date_arabica, price_arabica, date_conilon, price_conilon, now, trade_date, history>>
files == <<prices_file, history_file, index_file>>
sched == <<procs, run_limit, history0>>

NoExc == <<"", "">>
Array(items) == [kind |-> "array", items |-> items]

\* the order of the calls in main
MainOrderWriteEarly == <<"fetch_arabica", "now", "update_prices", "fetch_conilon",
                         "update_history", "update_index_html", "done">>
MainOrder == <<"fetch_arabica", "fetch_conilon", "now", "update_prices",
               "update_history", "update_index_html", "done">>
After(l) == MainOrder[(CHOOSE i \in 1..Len(MainOrder) : MainOrder[i] = l) + 1]

\* ------------------------------------------------------ files before a run
OldEntry(i) == [referente_a |-> <<"1", "8", "/", "0", "9", "/", "2", "0", "2", "5">>,
                coletado_em |-> <<Epoch.year, Epoch.month, Epoch.day - 1, i>>,
                produto |-> "cafe",
                tipo |-> IF i % 2 = 1 THEN "arabica" ELSE "conillon",
                valor |-> 200000 + i,
                unidade |-> "saca",
                moeda |-> "BRL"]
OldHistory(L) == Array([i \in 1..L |-> OldEntry(i)])
InitLens == {0, 1} \cup ((HistoryCap - 2)..MaxInitLen)
\* texts json.loads rejects (JSONDecodeError): an empty file, a broken text
Unparseable == {[kind |-> "empty"], [kind |-> "invalid"]}
\* valid JSON that is not an array, and bytes read_text cannot decode
Unusable == {[kind |-> "nonarray"], [kind |-> "undecodable"]}

OldText == <<"-", "-">>
Html(a, r) == [kind |-> "html", arabica |-> a, robusta |-> r]
InitIndex == {Absent} \cup {Html(a, r) : a \in {OldText, NoElem}, r \in {OldText, NoElem}}

OldSnapshot == [kind |-> "json",
                ultima_atualizacao |-> <<Epoch.year, Epoch.month, Epoch.day - 1, 0>>,
                data_formatada |-> <<"1", "8", "/", "0", "9", "/", "2", "0", "2", "5">>,
                hora_formatada |-> <<"0", "0", ":", "0", "0", ":", "0", "0">>,
                pregao_aberto |-> TRUE,
                fonte |-> "Noticias Agricolas",
                cafe |-> [arabica |-> 200001, robusta |-> 200002, conilon |-> 200002]]

InitCommon ==
  /\ clock = 0
  /\ pc = [p \in Procs |-> "idle"]
  /\ exc = [p \in Procs |-> NoExc]
  /\ date_arabica = [p \in Procs |-> <<>>]
  /\ date_conilon = [p \in Procs |-> <<>>]
  /\ price_arabica = [p \in Procs |-> 0]
  /\ price_conilon = [p \in Procs |-> 0]
  /\ now = [p \in Procs |-> 0]
  /\ trade_date = [p \in Procs |-> <<>>]
  /\ history = [p \in Procs |-> Array(<<>>)]
  /\ runs = 0
  /\ writes = 0
  /\ history0 = history_file
  /\ start_files = [p \in Procs |-> files]
  /\ overlapped = [p \in Procs |-> FALSE]

\* a few runs, one at a time, over every kind of pre-existing files
InitShort ==
  /\ procs = {1}
  /\ run_limit = MaxRuns
  /\ prices_file \in {Absent, OldSnapshot}
  /\ history_file \in {Absent} \cup Unparseable \cup Unusable \cup {OldHistory(L) : L \in InitLens}
  /\ index_file \in InitIndex
  /\ InitCommon

\* many runs, one at a time, from a history that is absent, empty or broken
InitLong ==
  /\ procs = {1}
  /\ run_limit = MaxRunsLong
  /\ prices_file = Absent
  /\ history_file \in {Absent} \cup Unparseable
  /\ index_file = Html(OldText, OldText)
  /\ InitCommon

\* two invocations the scheduler may overlap
InitConc ==
  /\ procs = Procs
  /\ run_limit = MaxRuns
  /\ prices_file = Absent
  /\ history_file \in {Absent, OldHistory(HistoryCap - 3)}
  /\ index_file = Absent
  /\ InitCommon

Init == InitShort \/ InitLong

\* ------------------------------------------------------------- operations
Running(p) == pc[p] # "idle"

\* the scheduler starts the script
Start(p) ==
  /\ p \in procs
  /\ pc[p] = "idle"
  /\ runs < run_limit
  /\ pc' = [pc EXCEPT ![p] = MainOrder[1]]
  /\ runs' = runs + 1
  /\ start_files' = [start_files EXCEPT ![p] = files]
  /\ overlapped' = [q \in Procs |->
                      IF q = p THEN \E r \in Procs \ {p} : Running(r)
                      ELSE IF Running(q) THEN TRUE ELSE overlapped[q]]
  /\ UNCHANGED <<clock, files, exc, locals, sched, writes>>

RaiseAt(p, site, name) ==
  /\ pc' = [pc EXCEPT ![p] = "raised"]
  /\ exc' = [exc EXCEPT ![p] = <<site, name>>]

\* date_arabica, price_arabica = parse_price(arabica_url)
FetchArabica(p) ==
  /\ pc[p] = "fetch_arabica"
  /\ \E resp \in arabica_url :
       LET r == parse_price(resp) IN
       IF r.ok
       THEN /\ date_arabica' = [date_arabica EXCEPT ![p] = r.date]
            /\ price_arabica' = [price_arabica EXCEPT ![p] = r.price]
            /\ pc' = [pc EXCEPT ![p] = After("fetch_arabica")]
            /\ UNCHANGED exc
       ELSE /\ RaiseAt(p, "fetch_arabica", r.exc)
            /\ UNCHANGED <<date_arabica, price_arabica>>
  /\ UNCHANGED <<clock, files, date_conilon, price_conilon, now, trade_date, history,
                 sched, runs, writes, start_files, overlapped>>

\* date_conilon, price_conilon = parse_price(conilon_url)
FetchConilon(p) ==
  /\ pc[p] = "fetch_conilon"
  /\ \E resp \in conilon_url :
       LET r == parse_price(resp) IN
       IF r.ok
       THEN /\ date_conilon' = [date_conilon EXCEPT ![p] = r.date]
            /\ price_conilon' = [price_conilon EXCEPT ![p] = r.price]
            /\ pc' = [pc EXCEPT ![p] = After("fetch_conilon")]
            /\ UNCHANGED exc
       ELSE /\ RaiseAt(p, "fetch_conilon", r.exc)
            /\ UNCHANGED <<date_conilon, price_conilon>>
  /\ UNCHANGED <<clock, files, date_arabica, price_arabica, now, trade_date, history,
                 sched, runs, writes, start_files, overlapped>>

\* now = datetime.now(); trade_date = now.strftime("%d/%m/%Y")
ReadNow(p) ==
  /\ pc[p] = "now"
  /\ now' = [now EXCEPT ![p] = clock]
  /\ trade_date' = [trade_date EXCEPT ![p] = StrfDate(clock)]
  /\ pc' = [pc EXCEPT ![p] = After("now")]
  /\ UNCHANGED <<clock, files, exc, date_arabica, price_arabica, date_conilon, price_conilon,
                 history, sched, runs, writes, start_files, overlapped>>

\* the JSON object update_prices writes; t is the clock when is_market_open runs
Snapshot(pa, pcn, n, t) ==
  [kind |-> "json",
   ultima_atualizacao |-> IsoFormat(n),
   data_formatada |-> StrfDate(n),
   hora_formatada |-> StrfTime(n),
   pregao_aberto |-> is_market_open(t),
   fonte |-> "Noticias Agricolas",
   cafe |-> [arabica |-> pa, robusta |-> pcn, conilon |-> pcn]]

UpdatePrices(p) ==
  /\ pc[p] = "update_prices"
  /\ prices_file' = Snapshot(price_arabica[p], price_conilon[p], now[p], clock)
  /\ pc' = [pc EXCEPT ![p] = After("update_prices")]
  /\ UNCHANGED <<clock, history_file, index_file, exc, locals, sched, runs, writes,
                 start_files, overlapped>>

\* h[-n:]
LastN(h, n) == SubSeq(h, Max(Len(h) - n, 0) + 1, Len(h))

TruncateKeepOneMore(h) == LastN(h, HistoryCap + 1)
TruncateHead(h) == SubSeq(h, 1, Min(Len(h), HistoryCap))
TruncateOdd(h) == LastN(h, HistoryCap - 1)
TruncateDropNewest(h) == SubSeq(LastN(h, HistoryCap), 1, Min(Len(h), HistoryCap) - 1)
\* history = history[-20:]
Truncate(h) == LastN(h, HistoryCap)

entry_arabica(p) == [referente_a |-> trade_date[p],
                     coletado_em |-> IsoFormat(now[p]),
                     produto |-> "cafe",
                     tipo |-> "arabica",
                     valor |-> price_arabica[p],
                     unidade |-> "saca",
                     moeda |-> "BRL"]

entry_conillon_arabica_price(p) == [entry_arabica(p) EXCEPT !.tipo = "conillon"]
entry_conillon(p) == [referente_a |-> trade_date[p],
                      coletado_em |-> IsoFormat(now[p]),
                      produto |-> "cafe",
                      tipo |-> "conillon",
                      valor |-> price_conilon[p],
                      unidade |-> "saca",
                      moeda |-> "BRL"]

\* update_history, the load: history = [] / json.loads(read_text()) / []
UpdateHistoryRead(p) ==
  /\ pc[p] = "update_history"
  /\ IF history_file.kind = "undecodable"
     THEN /\ RaiseAt(p, "update_history", "UnicodeDecodeError")
          /\ UNCHANGED history
     ELSE /\ history' = [history EXCEPT ![p] =
                IF history_file.kind = "absent" THEN Array(<<>>)
                ELSE IF history_file \in Unparseable THEN Array(<<>>)
                ELSE history_file]
          /\ pc' = [pc EXCEPT ![p] = "update_history_write"]
          /\ UNCHANGED exc
  /\ UNCHANGED <<clock, files, date_arabica, price_arabica, date_conilon, price_conilon,
                 now, trade_date, sched, runs, writes, start_files, overlapped>>

\* update_history, the rest: two appends, the slice, write_text
UpdateHistoryWrite(p) ==
  /\ pc[p] = "update_history_write"
  /\ IF history[p].kind # "array"
     THEN /\ RaiseAt(p, "update_history", "AttributeError")
          /\ UNCHANGED <<history_file, history, writes, overlapped>>
     ELSE LET appended == Append(Append(history[p].items, entry_arabica(p)), entry_conillon(p))
              kept == Array(Truncate(appended))
          IN /\ history' = [history EXCEPT ![p] = kept]
             /\ history_file' = kept
             /\ writes' = writes + 1
             /\ pc' = [pc EXCEPT ![p] = After("update_history")]
             /\ UNCHANGED <<exc, overlapped>>
  /\ UNCHANGED <<clock, prices_file, index_file, date_arabica, price_arabica, date_conilon,
                 price_conilon, now, trade_date, sched, runs, start_files>>

update_index_html_nested(doc, pa, pcn) ==
  IF doc.kind = "absent" THEN doc
  ELSE IF doc.arabica # NoElem
       THEN Html(format_brl(pa), IF doc.robusta # NoElem THEN format_brl(pcn) ELSE NoElem)
       ELSE doc
\* the document update_index_html leaves behind
update_index_html(doc, pa, pcn) ==
  IF doc.kind = "absent" THEN doc
  ELSE Html(IF doc.arabica # NoElem THEN format_brl(pa) ELSE NoElem,
            IF doc.robusta # NoElem THEN format_brl(pcn) ELSE NoElem)

UpdateIndexHtml(p) ==
  /\ pc[p] = "update_index_html"
  /\ index_file' = update_index_html(index_file, price_arabica[p], price_conilon[p])
  /\ pc' = [pc EXCEPT ![p] = After("update_index_html")]
  /\ UNCHANGED <<clock, prices_file, history_file, exc, locals, sched, runs, writes,
                 start_files, overlapped>>

\* the process ends: normally, or with the unhandled exception
Exit(p) ==
  /\ pc[p] \in {"done", "raised"}
  /\ pc' = [pc EXCEPT ![p] = "idle"]
  /\ exc' = [exc EXCEPT ![p] = NoExc]
  /\ date_arabica' = [date_arabica EXCEPT ![p] = <<>>]
  /\ date_conilon' = [date_conilon EXCEPT ![p] = <<>>]
  /\ price_arabica' = [price_arabica EXCEPT ![p] = 0]
  /\ price_conilon' = [price_conilon EXCEPT ![p] = 0]
  /\ now' = [now EXCEPT ![p] = 0]
  /\ trade_date' = [trade_date EXCEPT ![p] = <<>>]
  /\ history' = [history EXCEPT ![p] = Array(<<>>)]
  /\ overlapped' = [overlapped EXCEPT ![p] = FALSE]
  /\ UNCHANGED <<clock, files, sched, runs, writes, start_files>>

\* time passes
Tick ==
  /\ clock < MaxClock
  /\ clock' = clock + 1
  /\ UNCHANGED <<files, pc, exc, locals, sched, runs, writes, start_files, overlapped>>

Next ==
  \/ \E p \in Procs : Start(p)
  \/ \E p \in Procs : FetchArabica(p)
  \/ \E p \in Procs : FetchConilon(p)
  \/ \E p \in Procs : ReadNow(p)
  \/ \E p \in Procs : UpdatePrices(p)
  \/ \E p \in Procs : UpdateHistoryRead(p)
  \/ \E p \in Procs : UpdateHistoryWrite(p)
  \/ \E p \in Procs : UpdateIndexHtml(p)
  \/ \E p \in Procs : Exit(p)
  \/ Tick

Spec == Init /\ [][Next]_vars
SpecFresh == InitLong /\ [][Next]_vars
SpecConc == InitConc /\ [][Next]_vars

\* ================================================================ claims
Items(f) == IF f.kind = "array" THEN f.items ELSE <<>>
\* process p has just run update_history's write
JustWrote(p) == pc[p] = "update_history_write" /\ pc'[p] = After("update_history")
\* process p is right behind update_history's write
Wrote(p) == pc[p] = After("update_history")

\* C1: from a history that was an array of length L (or absent, L = 0), after
\* k >= 1 history writes the stored history has length min(20, L + 2k); so it
\* never exceeds 20, and it is exactly 20 once 10 writes have happened.
C1_LengthLaw ==
  (history0.kind \in {"absent", "array"} /\ writes >= 1) =>
     /\ history_file.kind = "array"
     /\ Len(history_file.items) = Min(20, Len(Items(history0)) + 2 * writes)
     /\ Len(history_file.items) <= 20
     /\ (writes >= 10 => Len(history_file.items) = 20)
C1_Witness ==
  /\ history0.kind = "absent"
  /\ writes >= 10
  /\ Len(Items(history_file)) = 20

\* C2: the sequence a run writes is the trailing 20 elements of the previous
\* history followed by the run's two entries: the new entries are last, the
\* survivors keep their order and only a prefix is dropped.
C2_TrailingSlice ==
  [][\A p \in Procs : JustWrote(p) =>
       LET all == Items(history_file) \o <<entry_arabica(p), entry_conillon(p)>>
           new == history_file'.items
           dropped == Len(all) - Len(new)
       IN /\ Len(new) = Min(20, Len(all))
          /\ \A i \in 1..Len(new) : new[i] = all[dropped + i]]_vars
C2_Witness ==
  /\ Wrote(1)
  /\ history0 = OldHistory(22)
  /\ writes = 1
  /\ Len(history_file.items) = 20
  /\ history_file.items[1] = OldEntry(5)
  /\ history_file.items[18] = OldEntry(22)
  /\ history_file.items[19].coletado_em = IsoFormat(now[1])

\* the two entries a write by p leaves at the end of the file, with the given
\* type name for the second one
TwoEntriesAtEnd(p, new, second) ==
  LET n == Len(new) IN
  /\ n >= 2
  /\ new[n - 1].tipo = "arabica"
  /\ new[n - 1].valor = price_arabica[p]
  /\ new[n].tipo = second
  /\ new[n].valor = price_conilon[p]
  /\ new[n - 1].coletado_em = IsoFormat(now[p])
  /\ new[n].coletado_em = new[n - 1].coletado_em
AppendsTwo(p, second) ==
  LET old == Items(history_file)
      new == history_file'.items
      n == Len(new)
  IN /\ TwoEntriesAtEnd(p, new, second)
     /\ n - 2 <= Len(old)
     /\ \A i \in 1..(n - 2) : new[i] = old[Len(old) - (n - 2) + i]

\* C3 as stated: every write appends an "arabica" entry and then a "conilon"
\* entry, with the fetched prices and one capture timestamp.
C3_Original == [][\A p \in Procs : JustWrote(p) => AppendsTwo(p, "conilon")]_vars
\* C3 amended: the same, the second entry carrying the type "conillon".
C3_AppendsTwo == [][\A p \in Procs : JustWrote(p) => AppendsTwo(p, "conillon")]_vars
C3_Witness ==
  /\ Wrote(1)
  /\ Len(history_file.items) = 4
  /\ history_file.items[3].valor = 229266
  /\ history_file.items[4].valor = 140221
  /\ history_file.items[4].tipo = "conillon"

\* C4: when the history file exists and its content does not parse as a JSON
\* array, the run does not fail and the file it writes holds exactly the two
\* entries of that run.
C4_SelfHealing ==
  \A p \in Procs :
    (Running(p) /\ start_files[p][2].kind \in {"empty", "invalid", "nonarray"}) =>
       /\ pc[p] = "raised" => exc[p][1] # "update_history"
       /\ Wrote(p) => /\ Len(Items(history_file)) = 2
                      /\ TwoEntriesAtEnd(p, history_file.items, "conillon")

\* C5: from an absent, empty or unparseable history file, the stored history
\* always has even length and each pair (2i-1, 2i) is the arabica entry then
\* the conilon entry of one capture.
C5_WholeUpdates ==
  history_file.kind = "array" =>
    LET h == history_file.items IN
    /\ Len(h) % 2 = 0
    /\ \A i \in 1..(Len(h) \div 2) :
         /\ h[2 * i - 1].tipo = "arabica"
         /\ h[2 * i].tipo = "conillon"
         /\ h[2 * i - 1].coletado_em = h[2 * i].coletado_em
         /\ h[2 * i - 1].referente_a = h[2 * i].referente_a
C5_Witness ==
  /\ writes = 11
  /\ history_file.kind = "array"
  /\ Len(history_file.items) = 20
  /\ history_file.items[1].tipo = "arabica"
  /\ history_file.items[1].coletado_em # history_file.items[20].coletado_em

\* C6: when a fetch fails the run aborts before any writer has run: the three
\* files are as they were when the run started.
C6_NoWriteOnFetchFailure ==
  \A p \in Procs :
    /\ (pc[p] = "raised" /\ exc[p][1] \in {"fetch_arabica", "fetch_conilon"})
          => files = start_files[p]
    /\ pc[p] \in {"fetch_arabica", "fetch_conilon"} => files = start_files[p]
C6_Witness ==
  /\ pc[1] = "raised"
  /\ exc[1] = <<"fetch_conilon", "ValueError">>
  /\ price_arabica[1] = 229266
  /\ runs = 2
  /\ prices_file.kind = "json"

\* C7: pregao_aberto of the snapshot is true exactly when the capture
\* timestamp stored in it falls on Monday..Friday.
C7_MarketOpenOfCapture ==
  \A p \in Procs :
    pc[p] = After("update_prices") =>
       /\ prices_file.ultima_atualizacao = IsoFormat(now[p])
       /\ prices_file.pregao_aberto = (Weekday(now[p]) \in 0..4)

\* C8: referente_a of the two appended entries is the reference date the
\* fetcher returned (cell 0 of the fetched row).
C8_ReferenceDate ==
  \A p \in Procs :
    Wrote(p) =>
      LET h == history_file.items IN
      /\ h[Len(h) - 1].referente_a = date_arabica[p]
      /\ h[Len(h)].referente_a = date_conilon[p]

\* C9: update_index_html returns normally; with no index.html it creates no
\* file and changes nothing; with one anchor missing the other one still
\* receives its formatted price.
C9_MissingIsNotFatal ==
  [][\A p \in Procs : (pc[p] = "update_index_html" /\ pc'[p] # pc[p]) =>
       /\ pc'[p] = "done"
       /\ UNCHANGED <<prices_file, history_file>>
       /\ index_file.kind = "absent" => index_file'.kind = "absent"
       /\ index_file.kind = "html" =>
            /\ index_file'.kind = "html"
            /\ index_file.arabica # NoElem => index_file'.arabica = format_brl(price_arabica[p])
            /\ index_file.robusta # NoElem => index_file'.robusta = format_brl(price_conilon[p])
            /\ index_file.arabica = NoElem => index_file'.arabica = NoElem
            /\ index_file.robusta = NoElem => index_file'.robusta = NoElem]_vars
C9_Witness ==
  /\ pc[1] = "done"
  /\ start_files[1][3] = Html(NoElem, OldText)
  /\ index_file = Html(NoElem, <<"R", "$", "1", ".", "4", "0", "2", ",", "2", "1">>)

\* C10: a run that overlapped no other run finds its two entries at the end
\* of the history right after it; two overlapping runs can both complete and
\* leave the entries of only one of them.
C10_NoLossWithoutOverlap ==
  \A p \in Procs :
    (pc[p] \in {"update_index_html", "done"} /\ ~overlapped[p]) =>
       /\ history_file.kind = "array"
       /\ TwoEntriesAtEnd(p, history_file.items, "conillon")
       /\ Len(history_file.items) = Min(20, Len(Items(start_files[p][2])) + 2)
C10_LostUpdate ==
  /\ pc[1] = "done" /\ pc[2] = "done"
  /\ overlapped[1] /\ overlapped[2]
  /\ writes = 2
  /\ history0.kind = "absent"
  /\ Len(history_file.items) = 2
====
